---- MODULE Spec2Model ----
(***************************************************************************)
(* Deduplication.deduplicate_records (src/app/deduplicate.py): one call of *)
(* the deduplication engine on a DataFrame and a configuration.            *)
(*                                                                         *)
(* A DataFrame is [columns, index, rows]: the set of column names, the     *)
(* sequence of index labels (a RangeIndex, written 1..n here) and the      *)
(* sequence of rows, each row a function from column name to cell value.   *)
(* A string cell of a key column is a sequence of one-character strings,   *)
(* so that str.strip() and '||'.join() are computed, not assumed.          *)
(***************************************************************************)
EXTENDS Integers, Sequences, FiniteSets, TLC

VARIABLES
    input_df,        \* the dataset as the host supplied it (never written)
    df,              \* the DataFrame object the caller passed in (mutable)
    dedup_config,    \* the configuration argument: [is_none, items], items the dict
    pc,              \* "call" | "returned" | "raised"
    error,           \* the exception that left the call: [type, message]
    df_deduped,      \* first returned value, or None
    removed_log_df,  \* second returned value, or None
    keep_idx,        \* local keep_idx when the call ended (index labels, group order)
    to_remove_mask,  \* local to_remove_mask when the call ended (set of index labels)
    stats,           \* the statistics dictionary built by the call, or None
    warned           \* whether the threshold warning was logged

vars == <<input_df, df, dedup_config, pc, error, df_deduped, removed_log_df,
          keep_idx, to_remove_mask, stats, warned>>

----------------------------------------------------------------------------
(* Python values *)

None == "None"

\* pd.DataFrame()
EmptyFrame == [columns |-> {}, index |-> <<>>, rows |-> <<>>]

Range(s) == {s[i] : i \in DOMAIN s}

\* dict.get(key): the value, or None when the key is absent
Get(d, k) == IF k \in DOMAIN d THEN d[k] ELSE None

\* dict.get(key, default)
GetOr(d, k, default) == IF k \in DOMAIN d THEN d[k] ELSE default

NoError == [type |-> None, message |-> None]
Raised(t, m) == [type |-> t, message |-> m]

\* the function f without the keys in ks
Drop(f, ks) == [c \in (DOMAIN f) \ ks |-> f[c]]

\* the subsequence of s at the positions in keep, in order
RECURSIVE SelectIdx(_, _, _)
SelectIdx(s, keep, i) ==
    IF i > Len(s) THEN <<>>
    ELSE (IF i \in keep THEN <<s[i]>> ELSE <<>>) \o SelectIdx(s, keep, i + 1)

----------------------------------------------------------------------------
(* str.strip(): leading and trailing whitespace removed *)

RECURSIVE lstrip(_)
lstrip(s) == IF s # <<>> /\ Head(s) = " " THEN lstrip(Tail(s)) ELSE s

RECURSIVE rstrip(_)
rstrip(s) ==
    IF s # <<>> /\ s[Len(s)] = " " THEN rstrip(SubSeq(s, 1, Len(s) - 1)) ELSE s

strip(s) == rstrip(lstrip(s))

\* df[keys] = df[keys].apply(lambda x: x.astype(str).str.strip())
StripKeys(frame, keys) ==
    [frame EXCEPT !.rows =
        [i \in DOMAIN frame.rows |->
            [c \in DOMAIN frame.rows[i] |->
                IF c \in Range(keys) THEN strip(frame.rows[i][c])
                ELSE frame.rows[i][c]]]]

----------------------------------------------------------------------------
(* stage derivation and scoring *)

FlagLabels == <<"APPLY", "ADMIT", "COMMIT", "ENROLL">>

\* [col_apply, col_admit, col_commit, col_enroll]
FlagCols(flags) == [i \in 1..Len(FlagLabels) |-> Get(flags, FlagLabels[i])]

\* mutant of MissingCols: a configured column is never reported missing
MissingCols_unchecked(frame, flags) ==
    SelectIdx(FlagCols(flags), {}, 1)

\* [col for col in [...] if col and col not in df.columns]
MissingCols(frame, flags) ==
    SelectIdx(FlagCols(flags),
              {i \in 1..Len(FlagLabels) :
                   /\ FlagCols(flags)[i] # None
                   /\ FlagCols(flags)[i] \notin frame.columns},
              1)

\* flag_cols = [col for col in [...] if col]
ConfiguredCols(flags) ==
    SelectIdx(FlagCols(flags),
              {i \in 1..Len(FlagLabels) : FlagCols(flags)[i] # None}, 1)

\* row.get(col) == 1
RowHas1(row, col) == col \in DOMAIN row /\ row[col] = 1

\* mutant of derive_stage: the flags looked at from APPLY up
derive_stage_apply_first(row, flags) ==
    IF RowHas1(row, Get(flags, "APPLY")) THEN "APPLY"
    ELSE IF RowHas1(row, Get(flags, "ADMIT")) THEN "ADMIT"
    ELSE IF RowHas1(row, Get(flags, "COMMIT")) THEN "COMMIT"
    ELSE IF RowHas1(row, Get(flags, "ENROLL")) THEN "ENROLL"
    ELSE None

derive_stage(row, flags) ==
    IF RowHas1(row, Get(flags, "ENROLL")) THEN "ENROLL"
    ELSE IF RowHas1(row, Get(flags, "COMMIT")) THEN "COMMIT"
    ELSE IF RowHas1(row, Get(flags, "ADMIT")) THEN "ADMIT"
    ELSE IF RowHas1(row, Get(flags, "APPLY")) THEN "APPLY"
    ELSE None

\* positions counted from 1 instead of 0
RECURSIVE ScoreMapUpTo_from_one(_, _)
ScoreMapUpTo_from_one(funnel_priority, n) ==
    IF n = 0 THEN << >>
    ELSE (funnel_priority[n] :> (Len(funnel_priority) - n))
             @@ ScoreMapUpTo_from_one(funnel_priority, n - 1)

\* {stage: len(funnel_priority) - i for i, stage in enumerate(funnel_priority)},
\* built entry by entry: a later entry of the same stage replaces an earlier one
RECURSIVE ScoreMapUpTo(_, _)
ScoreMapUpTo(funnel_priority, n) ==
    IF n = 0 THEN << >>
    ELSE (funnel_priority[n] :> (Len(funnel_priority) - (n - 1)))
             @@ ScoreMapUpTo(funnel_priority, n - 1)

\* mutant of score_map: len(funnel_priority) - (i + 1)
score_map_from_one(funnel_priority) ==
    ScoreMapUpTo_from_one(funnel_priority, Len(funnel_priority))

score_map(funnel_priority) == ScoreMapUpTo(funnel_priority, Len(funnel_priority))

\* df['STAGE'].map(score_map).fillna(0).astype(int), for one stage
ScoreOf(stage, funnel_priority) ==
    IF stage \in DOMAIN score_map(funnel_priority)
    THEN score_map(funnel_priority)[stage] ELSE 0

\* df['STAGE'] = ...; df['_score'] = ...
WithStageAndScore(frame, flags, funnel_priority) ==
    [frame EXCEPT
        !.columns = @ \cup {"STAGE", "_score"},
        !.rows = [i \in DOMAIN frame.rows |->
            LET st == derive_stage(frame.rows[i], flags)
            IN  ("STAGE" :> st) @@ ("_score" :> ScoreOf(st, funnel_priority))
                    @@ frame.rows[i]]]

\* df.drop(['STAGE', '_score'], axis=1)
DropStageAndScore(frame) ==
    [frame EXCEPT
        !.columns = @ \ {"STAGE", "_score"},
        !.rows = [i \in DOMAIN frame.rows |-> Drop(frame.rows[i], {"STAGE", "_score"})]]

----------------------------------------------------------------------------
(* duplicate groups and survivors *)

\* the values of the key columns of a row, in the order of keys
KeyOf(row, keys) == [k \in 1..Len(keys) |-> row[keys[k]]]

\* mutant of duplicated: keep='first', the first record of a group not marked
duplicated_keep_first(frame, keys) ==
    {i \in DOMAIN frame.rows :
        \E j \in DOMAIN frame.rows :
            j < i /\ KeyOf(frame.rows[j], keys) = KeyOf(frame.rows[i], keys)}

\* df.duplicated(subset=keys, keep=False): the labels of the rows whose key
\* values some other row shares
duplicated(frame, keys) ==
    {i \in DOMAIN frame.rows :
        \E j \in DOMAIN frame.rows :
            j # i /\ KeyOf(frame.rows[j], keys) = KeyOf(frame.rows[i], keys)}

\* code points of the characters the model's strings are made of
CharRank(c) == CASE c = " " -> 32 [] c = "a" -> 97 [] c = "b" -> 98 [] c = "|" -> 124

\* Python's str ordering
RECURSIVE StrLess(_, _)
StrLess(s, t) ==
    IF t = <<>> THEN FALSE
    ELSE IF s = <<>> THEN TRUE
    ELSE IF Head(s) # Head(t) THEN CharRank(Head(s)) < CharRank(Head(t))
    ELSE StrLess(Tail(s), Tail(t))

\* the ordering of group keys (tuples of strings) that groupby sorts by
RECURSIVE KeyLess(_, _)
KeyLess(a, b) ==
    IF a = <<>> \/ b = <<>> THEN FALSE
    ELSE IF Head(a) # Head(b) THEN StrLess(Head(a), Head(b))
    ELSE KeyLess(Tail(a), Tail(b))

\* the group keys in groupby's (sorted) order
RECURSIVE SortedKeys(_)
SortedKeys(ks) ==
    IF ks = {} THEN <<>>
    ELSE LET m == CHOOSE k \in ks : \A o \in ks \ {k} : KeyLess(k, o)
         IN  <<m>> \o SortedKeys(ks \ {m})

\* mutant of idxmax: the last label holding the maximum
idxmax_last(frame, group) ==
    CHOOSE i \in group :
        /\ \A j \in group : frame.rows[j]["_score"] <= frame.rows[i]["_score"]
        /\ \A j \in group : frame.rows[j]["_score"] = frame.rows[i]["_score"] => j <= i

\* Series.idxmax() of '_score' over one group: the first label holding the maximum
idxmax(frame, group) ==
    CHOOSE i \in group :
        /\ \A j \in group : frame.rows[j]["_score"] <= frame.rows[i]["_score"]
        /\ \A j \in group : frame.rows[j]["_score"] = frame.rows[i]["_score"] => i <= j

\* df.loc[dup_mask].groupby(keys, dropna=False)['_score'].idxmax()
GroupIdxMax(frame, keys, dup_mask) ==
    LET gk == SortedKeys({KeyOf(frame.rows[i], keys) : i \in dup_mask})
    IN  [g \in DOMAIN gk |->
            idxmax(frame, {i \in dup_mask : KeyOf(frame.rows[i], keys) = gk[g]})]

\* dup_mask & ~df.index.isin(keep_idx)
ToRemove(dup_mask, keep) == {i \in dup_mask : i \notin Range(keep)}

----------------------------------------------------------------------------
(* _log_formation *)

\* '||'.join of the key values of a row
RECURSIVE JoinKeys(_)
JoinKeys(vals) ==
    IF vals = <<>> THEN <<>>
    ELSE IF Len(vals) = 1 THEN vals[1]
    ELSE vals[1] \o <<"|", "|">> \o JoinKeys(Tail(vals))

merge_key(row, keys) == JoinKeys(KeyOf(row, keys))

\* a missing value in a numeric column; no score is negative
NaN == 0 - 1

\* every comparison with NaN is False
reason_fn(r) ==
    IF r["_score_kept"] = NaN THEN "duplicate"
    ELSE IF r["_score"] < r["_score_kept"] THEN "duplicate: lower-priority stage"
    ELSE IF r["_score"] = r["_score_kept"] THEN "duplicate: same stage, kept first"
    ELSE "duplicate"

\* one row of the result of removed.merge(kept, on='_merge_key', how='left'),
\* cut to keys + ['STAGE', 'STAGE_kept', '_score', '_score_kept'], with its reason
AuditRow(rem, stage_kept, score_kept, keys) ==
    LET r == ("STAGE_kept" :> stage_kept) @@ ("_score_kept" :> score_kept)
                 @@ [c \in Range(keys) \cup {"STAGE", "_score"} |-> rem[c]]
    IN  ("reason" :> reason_fn(r)) @@ r

\* the rows a left merge makes of one removed row: one per kept row with its
\* merge key, in the order of kept, and one with missing values if there is none
RECURSIVE MatchesOf(_, _, _, _)
MatchesOf(rem, kept, keys, k) ==
    IF k > Len(kept) THEN <<>>
    ELSE (IF merge_key(kept[k], keys) = merge_key(rem, keys)
          THEN <<AuditRow(rem, kept[k]["STAGE"], kept[k]["_score"], keys)>>
          ELSE <<>>) \o MatchesOf(rem, kept, keys, k + 1)

MergeOne(rem, kept, keys) ==
    IF MatchesOf(rem, kept, keys, 1) = <<>>
    THEN <<AuditRow(rem, None, NaN, keys)>>
    ELSE MatchesOf(rem, kept, keys, 1)

RECURSIVE MergeLeft(_, _, _, _)
MergeLeft(removed, kept, keys, i) ==
    IF i > Len(removed) THEN <<>>
    ELSE MergeOne(removed[i], kept, keys) \o MergeLeft(removed, kept, keys, i + 1)

_log_formation(frame, remove_mask, keys, flag_cols, keep) ==
    LET removed == SelectIdx(frame.rows, remove_mask, 1)
        kept    == [k \in DOMAIN keep |-> frame.rows[keep[k]]]
        merged  == MergeLeft(removed, kept, keys, 1)
    IN  [columns |-> Range(keys)
                       \cup {"STAGE", "STAGE_kept", "_score", "_score_kept", "reason"},
         index   |-> [i \in DOMAIN merged |-> i],
         rows    |-> merged]

----------------------------------------------------------------------------
(* statistics *)

\* a number as a fraction num/den, den > 0
Frac(n, d) == [num |-> n, den |-> d]
FracGreater(a, b) == a.num * b.den > b.num * a.den

\* (threshold_for_removing / 100.0) if threshold_for_removing > 1
\*     else float(threshold_for_removing)
NormalizeThreshold(t) ==
    IF FracGreater(t, Frac(1, 1)) THEN Frac(t.num, t.den * 100) ELSE t

\* (removed_n / total) if total else 0.0
RemovedShare(removed_n, total) ==
    IF total # 0 THEN Frac(removed_n, total) ELSE Frac(0, 1)

----------------------------------------------------------------------------
(* deduplicate_records *)

\* return a, b
Return(a, b) ==
    /\ pc' = "returned"
    /\ df_deduped' = a
    /\ removed_log_df' = b
    /\ error' = NoError

\* raise t(m)
Raise(t, m) ==
    /\ pc' = "raised"
    /\ error' = Raised(t, m)
    /\ UNCHANGED <<df_deduped, removed_log_df>>

\* lines 55-103, on the frame that lines 22-53 left in the caller's object
Resolve(frame, keys, flags, items) ==
    LET dup_mask == duplicated(frame, keys)
        keep     == GroupIdxMax(frame, keys, dup_mask)
        remove   == ToRemove(dup_mask, keep)
        log      == _log_formation(frame, remove, keys, ConfiguredCols(flags), keep)
        deduped  == LET d == DropStageAndScore(frame)
                    IN  [d EXCEPT
                           !.index = SelectIdx(d.index, DOMAIN d.rows \ remove, 1),
                           !.rows  = SelectIdx(d.rows, DOMAIN d.rows \ remove, 1)]
        total    == Len(frame.rows)
        removed_n == Cardinality(remove)
        share    == RemovedShare(removed_n, total)
    IN  IF dup_mask = {}
        THEN /\ stats' = [total_rows |-> Len(frame.rows), removed_rows |-> 0,
                          removed_share |-> Frac(0, 1),
                          threshold |-> Get(items, "threshold_for_removing")]
             /\ UNCHANGED <<keep_idx, to_remove_mask, warned>>
             /\ Return(DropStageAndScore(frame), EmptyFrame)
        ELSE /\ keep_idx' = keep
             /\ to_remove_mask' = remove
             /\ IF "threshold_for_removing" \notin DOMAIN items
                THEN \* None > 1
                     /\ Raise("TypeError", "'>' not supported between NoneType and int")
                     /\ UNCHANGED <<stats, warned>>
                ELSE LET threshold == NormalizeThreshold(items["threshold_for_removing"])
                     IN  /\ stats' = [total_rows |-> total, removed_rows |-> removed_n,
                                      removed_share |-> share, threshold |-> threshold]
                         /\ warned' = FracGreater(share, threshold)
                         /\ Return(deduped, log)

deduplicate_records ==
    /\ pc = "call"
    /\ UNCHANGED <<input_df, dedup_config>>
    /\ LET items           == dedup_config.items
           keys            == GetOr(items, "keys", <<>>)
           flags           == GetOr(items, "flags", << >>)
           funnel_priority == GetOr(items, "funnel_priority", <<>>)
       IN  IF dedup_config.is_none \/ DOMAIN items = {}
           THEN /\ Return(df, EmptyFrame)
                /\ UNCHANGED <<df, keep_idx, to_remove_mask, stats, warned>>
           ELSE IF keys = <<>>
           THEN /\ Raise("ValueError", "keys are empty")
                /\ UNCHANGED <<df, keep_idx, to_remove_mask, stats, warned>>
           ELSE IF \E k \in Range(keys) : k \notin df.columns
           THEN \* df[keys] of a column the frame does not have
                /\ Raise("KeyError", "not in index")
                /\ UNCHANGED <<df, keep_idx, to_remove_mask, stats, warned>>
           ELSE IF MissingCols(StripKeys(df, keys), flags) # <<>>
           THEN /\ df' = StripKeys(df, keys)
                /\ Raise("ValueError", "Dataset has no flag columns")
                /\ UNCHANGED <<keep_idx, to_remove_mask, stats, warned>>
           ELSE LET frame == WithStageAndScore(StripKeys(df, keys), flags,
                                               funnel_priority)
                IN  /\ df' = frame
                    /\ Resolve(frame, keys, flags, items)

Next == deduplicate_records

----------------------------------------------------------------------------
(* the inputs *)

\* a call with dataset d and configuration c about to be made
InitWith(frames, configs) ==
    /\ input_df \in frames
    /\ df = input_df
    /\ dedup_config \in configs
    /\ pc = "call"
    /\ error = NoError
    /\ df_deduped = None
    /\ removed_log_df = None
    /\ keep_idx = <<>>
    /\ to_remove_mask = {}
    /\ stats = None
    /\ warned = FALSE

\* the frame with the given rows and a RangeIndex
Frame(cols, rows) == [columns |-> cols, index |-> [i \in DOMAIN rows |-> i], rows |-> rows]

\* all sequences of at most n members of S
SeqUpTo(S, n) == UNION {[1..k -> S] : k \in 0..n}

\* flag column names of the example configuration
FlagColumn == [APPLY |-> "FLAG_APP", ADMIT |-> "FLAG_ADM",
               COMMIT |-> "FLAG_CON", ENROLL |-> "FLAG_ENR"]

\* a flags mapping that configures the labels in ls
FlagsFor(ls) == [l \in ls |-> FlagColumn[l]]

NoConfig == [is_none |-> TRUE, items |-> << >>]
Config(items) == [is_none |-> FALSE, items |-> items]

\* a configuration with keys, flags, funnel_priority and threshold_for_removing
FullConfig(keys, flags, funnel_priority, t) ==
    Config([x \in {"keys", "flags", "funnel_priority", "threshold_for_removing"} |->
               CASE x = "keys" -> keys
                 [] x = "flags" -> flags
                 [] x = "funnel_priority" -> funnel_priority
                 [] x = "threshold_for_removing" -> t])

\* the same without threshold_for_removing
ConfigNoThreshold(keys, flags, funnel_priority) ==
    Config([x \in {"keys", "flags", "funnel_priority"} |->
               CASE x = "keys" -> keys
                 [] x = "flags" -> flags
                 [] x = "funnel_priority" -> funnel_priority])

----------------------------------------------------------------------------
(* bounded input families *)

MaxRows == 3
JoinRows == 4
CfgRows == 2

StandardPriority == <<"ENROLL", "COMMIT", "ADMIT", "APPLY">>

Row(kt, fv, extra) == ("K1" :> kt[1]) @@ ("K2" :> kt[2]) @@ fv @@ extra

\* datasets with two key columns and the flag columns fcols, of at most n rows,
\* every row with the cells of extra besides
Frames(kts, fcols, fvals, extra, n) ==
    {Frame({"K1", "K2"} \cup fcols \cup DOMAIN extra, rows) :
        rows \in SeqUpTo({Row(kt, fv, extra) : kt \in kts, fv \in [fcols -> fvals]}, n)}

DataFlagCols == {"FLAG_APP", "FLAG_ENR"}

\* ("a", "b"), (" a", "b ") which is the same entity once trimmed, and ("a", "a")
DedupKeyTuples ==
    { << <<"a">>, <<"b">> >>,
      << <<" ", "a">>, <<"b", " ">> >>,
      << <<"a">>, <<"a">> >> }

\* one or two keys; both flags ranked as in the example, both ranked the other
\* way round, and ENROLL alone
DedupConfigs ==
    {FullConfig(k, FlagsFor(lf[1]), lf[2], Frac(2, 1)) :
        k \in {<<"K1">>, <<"K1", "K2">>},
        lf \in {<<{"APPLY", "ENROLL"}, StandardPriority>>,
                <<{"APPLY", "ENROLL"}, <<"APPLY", "ENROLL">> >>,
                <<{"ENROLL"}, StandardPriority>>}}

Init == InitWith(Frames(DedupKeyTuples, DataFlagCols, {0, 1}, << >>, MaxRows),
                 DedupConfigs)

Spec == Init /\ [][Next]_vars

\* ("a||b", "b") and ("a", "b||b"): two entities, one '||'-joined string
JoinKeyTuples ==
    { << <<"a", "|", "|", "b">>, <<"b">> >>,
      << <<"a">>, <<"b", "|", "|", "b">> >> }

JoinConfigs ==
    {FullConfig(k, FlagsFor({"APPLY", "ENROLL"}), StandardPriority, Frac(2, 1)) :
        k \in {<<"K1">>, <<"K1", "K2">>}}

InitJoin == InitWith(Frames(JoinKeyTuples, DataFlagCols, {0, 1}, << >>, JoinRows),
                     JoinConfigs)

SpecJoin == InitJoin /\ [][Next]_vars

\* ("a", "b") and (" a", "b ")
CfgKeyTuples ==
    { << <<"a">>, <<"b">> >>,
      << <<" ", "a">>, <<"b", " ">> >> }

\* columns of the dataset besides the keys and the flags
ExtraCells == {<< >>, "STAGE" :> "x", "_score" :> 7, "NOTE" :> "x"}

CfgFrames ==
    UNION {Frames(CfgKeyTuples, DataFlagCols, {0, 1}, extra, CfgRows) :
               extra \in ExtraCells}

\* None, {}, {"keys": []}, and keys (none, present, one not a column of the
\* dataset) with flags (none, present, one not a column of the dataset), with and
\* without threshold_for_removing
CfgConfigs ==
    {NoConfig, Config(<< >>), Config("keys" :> <<>>)}
    \cup {FullConfig(k, FlagsFor(ls), StandardPriority, t) :
            k \in {<<>>, <<"K1">>, <<"K1", "K2">>, <<"K3">>},
            ls \in {{}, {"APPLY", "ENROLL"}, {"APPLY", "COMMIT", "ENROLL"}},
            t \in {Frac(2, 1), Frac(1, 2)}}
    \cup {ConfigNoThreshold(k, FlagsFor(ls), StandardPriority) :
            k \in {<<>>, <<"K1">>, <<"K1", "K2">>, <<"K3">>},
            ls \in {{}, {"APPLY", "ENROLL"}, {"APPLY", "COMMIT", "ENROLL"}}}

InitConfig == InitWith(CfgFrames, CfgConfigs)

SpecConfig == InitConfig /\ [][Next]_vars

\* one record over all four flag columns, a flag cell being 0, 1 or another number
AllFlagCols == {FlagColumn[l] : l \in Range(FlagLabels)}

StageFrames ==
    {Frame({"K1", "K2"} \cup AllFlagCols, <<Row(<< <<"a">>, <<"b">> >>, fv, << >>)>>) :
        fv \in [AllFlagCols -> {0, 1, 2}]}

\* every sequence of distinct stage labels
Priorities ==
    {fp \in SeqUpTo(Range(FlagLabels), Len(FlagLabels)) :
        \A i, j \in DOMAIN fp : fp[i] = fp[j] => i = j}

StageConfigs ==
    {FullConfig(<<"K1">>, FlagsFor(ls), fp, Frac(2, 1)) :
        ls \in SUBSET Range(FlagLabels), fp \in Priorities}

InitStage == InitWith(StageFrames, StageConfigs)

SpecStage == InitStage /\ [][Next]_vars

----------------------------------------------------------------------------
(* what the properties speak of *)

\* the call returned, from a configuration that is neither absent nor empty
ReturnedFromConfig ==
    pc = "returned" /\ ~dedup_config.is_none /\ DOMAIN dedup_config.items # {}

ConfigKeys == GetOr(dedup_config.items, "keys", <<>>)
ConfigFlags == GetOr(dedup_config.items, "flags", << >>)
ConfigPriority == GetOr(dedup_config.items, "funnel_priority", <<>>)

\* the trimmed key values of input record i
TrimmedKey(i) == [k \in DOMAIN ConfigKeys |-> strip(input_df.rows[i][ConfigKeys[k]])]

\* the input records that share the trimmed key values of record i
GroupOf(i) == {j \in DOMAIN input_df.rows : TrimmedKey(j) = TrimmedKey(i)}

\* the input records that are in the deduped dataset
Survivors == Range(df_deduped.index)

\* the score the call gave record i
Score(i) == df.rows[i]["_score"]

----------------------------------------------------------------------------
\* C1. Survivor uniqueness: once deduplicate_records has returned from a
\* non-empty configuration, every duplicate group (two or more input records
\* with the same trimmed values in all key columns) has exactly one member in
\* the deduped dataset, every record outside the duplicate groups is in it, and
\* no record is in it twice.
SurvivorUniqueness ==
    ReturnedFromConfig =>
        /\ Len(df_deduped.index) = Cardinality(Survivors)
        /\ Survivors \subseteq DOMAIN input_df.rows
        /\ \A i \in DOMAIN input_df.rows :
              IF Cardinality(GroupOf(i)) >= 2
              THEN Cardinality(GroupOf(i) \cap Survivors) = 1
              ELSE i \in Survivors

\* a run with a duplicate group whose members differ before trimming, a second
\* record removed, and a record outside every duplicate group
SurvivorUniquenessWitness ==
    /\ ReturnedFromConfig
    /\ \E i, j, k \in DOMAIN input_df.rows :
          /\ i # j /\ j \in GroupOf(i)
          /\ input_df.rows[i]["K1"] # input_df.rows[j]["K1"]
          /\ i \in Survivors /\ j \notin Survivors
          /\ GroupOf(k) = {k} /\ k \in Survivors

\* C2. Survivor selection: in every duplicate group the survivor has the
\* maximum score of the group and is the first record of the group with that
\* score; so no removed record scores more than its group's survivor, and a
\* removed record with the survivor's score comes later in the input.
SurvivorSelection ==
    ReturnedFromConfig =>
        \A s \in Survivors : \A r \in GroupOf(s) \ {s} :
            /\ Score(r) <= Score(s)
            /\ Score(r) = Score(s) => s < r

\* a group of three whose first record scores less than the second, and the
\* third as much as the second: the second survives
SurvivorSelectionWitness ==
    /\ ReturnedFromConfig
    /\ \E s \in Survivors : \E r1, r2 \in GroupOf(s) :
          /\ r1 < s /\ s < r2
          /\ Score(r1) < Score(s)
          /\ Score(r2) = Score(s)
          /\ r1 \notin Survivors /\ r2 \notin Survivors

\* the input records that are not in the deduped dataset, in input order
RemovedRecords == SelectIdx(input_df.index, DOMAIN input_df.rows \ Survivors, 1)

\* the key values an audit row carries
AuditKey(a) == [k \in DOMAIN ConfigKeys |-> a[ConfigKeys[k]]]

\* C3. Conservation: after a run with a non-empty configuration the audit
\* dataset holds exactly one row for each removed record and no other row, so
\* len(deduped_dataset) + len(audit_dataset) == len(original_dataset), for any
\* number of key columns and any key values.
Conservation ==
    ReturnedFromConfig =>
        /\ Len(df_deduped.rows) + Len(removed_log_df.rows) = Len(input_df.rows)
        /\ Len(removed_log_df.rows) = Len(RemovedRecords)
        /\ \A k \in DOMAIN removed_log_df.rows :
              k \in DOMAIN RemovedRecords =>
                  /\ AuditKey(removed_log_df.rows[k]) = TrimmedKey(RemovedRecords[k])
                  /\ removed_log_df.rows[k]["_score"] = Score(RemovedRecords[k])

AuditReasons == {"duplicate: lower-priority stage", "duplicate: same stage, kept first"}

\* C4. Removal reason: every audit row carries the stage and score of the
\* survivor of the removed record's own duplicate group; its reason is
\* 'duplicate: lower-priority stage' when the removed record scores less than
\* that survivor and 'duplicate: same stage, kept first' when the scores are
\* equal; a removed score above the kept score never occurs, so no row has
\* another reason.
RemovalReason ==
    ReturnedFromConfig =>
        \A k \in DOMAIN removed_log_df.rows :
            LET a == removed_log_df.rows[k]
            IN  /\ \E s \in Survivors :
                      /\ TrimmedKey(s) = AuditKey(a)
                      /\ a["STAGE_kept"] = df.rows[s]["STAGE"]
                      /\ a["_score_kept"] = Score(s)
                /\ a["_score"] <= a["_score_kept"]
                /\ a["_score"] < a["_score_kept"]
                       => a["reason"] = "duplicate: lower-priority stage"
                /\ a["_score"] = a["_score_kept"]
                       => a["reason"] = "duplicate: same stage, kept first"
                /\ a["reason"] \in AuditReasons

\* the configuration is neither absent nor empty
ConfigGiven == ~dedup_config.is_none /\ DOMAIN dedup_config.items # {}

\* some column name configured in flags is not a column of the dataset
FlagColumnAbsent == \E l \in DOMAIN ConfigFlags : ConfigFlags[l] \notin input_df.columns

\* every key column is a column of the dataset
KeyColumnsPresent == Range(ConfigKeys) \subseteq input_df.columns

\* an absent or empty configuration returns the input dataset and an empty audit
NoOpOnEmptyConfig ==
    (pc # "call" /\ ~ConfigGiven) =>
        /\ pc = "returned"
        /\ df_deduped = input_df
        /\ removed_log_df = EmptyFrame

CallerDatasetUnchanged == pc # "call" => df = input_df

\* C7. No error beyond validation: with keys non-empty and every configured
\* flag column present the call returns, whatever threshold_for_removing is and
\* also when it is not given.  (Stated for datasets that have the key columns.)
NoErrorBeyondValidation ==
    (pc # "call" /\ ConfigGiven /\ ConfigKeys # <<>> /\ KeyColumnsPresent
         /\ ~FlagColumnAbsent)
        => pc = "returned" /\ error = NoError

\* C8. Output shape: the deduped dataset is a subsequence of the input dataset
\* and every output record retains every column of the input, also one named
\* STAGE or _score.  (Cell values are compared outside the key columns.)
OutputShape ==
    ReturnedFromConfig =>
        /\ df_deduped.columns = input_df.columns
        /\ Survivors \subseteq DOMAIN input_df.rows
        /\ \A k \in DOMAIN df_deduped.index :
              k > 1 => df_deduped.index[k - 1] < df_deduped.index[k]
        /\ \A k \in DOMAIN df_deduped.rows :
              \A c \in input_df.columns \ Range(ConfigKeys) :
                  /\ c \in DOMAIN df_deduped.rows[k]
                  /\ df_deduped.rows[k][c] = input_df.rows[df_deduped.index[k]][c]

\* the fixed order in which the flags of a record are looked at
StagePrecedence == <<"ENROLL", "COMMIT", "ADMIT", "APPLY">>

\* the places of StagePrecedence whose label is configured and whose flag
\* column holds 1 in input record i
StageHits(i) ==
    {p \in DOMAIN StagePrecedence :
        /\ StagePrecedence[p] \in DOMAIN ConfigFlags
        /\ input_df.rows[i][ConfigFlags[StagePrecedence[p]]] = 1}

\* the stage the call gave record i
Stage(i) == df.rows[i]["STAGE"]

\* C9. Stage derivation: the stage of a record is the first label in the order
\* ENROLL, COMMIT, ADMIT, APPLY whose flag column is configured and holds 1 in
\* the record, and no stage if there is none; funnel_priority has no part in
\* it (the statement holds under every funnel_priority and does not read it).
StageDerivation ==
    ReturnedFromConfig =>
        \A i \in DOMAIN input_df.rows :
            Stage(i) = IF StageHits(i) = {} THEN None
                       ELSE StagePrecedence[CHOOSE p \in StageHits(i) :
                                                \A q \in StageHits(i) : p <= q]

\* a record with the ENROLL flag set but not configured and the COMMIT and
\* APPLY flags set and configured is at COMMIT, though funnel_priority ranks
\* APPLY above COMMIT
StageDerivationWitness ==
    /\ ReturnedFromConfig
    /\ DOMAIN ConfigFlags = {"APPLY", "COMMIT"}
    /\ ConfigPriority = <<"APPLY", "COMMIT">>
    /\ \E i \in DOMAIN input_df.rows :
          /\ input_df.rows[i]["FLAG_ENR"] = 1
          /\ input_df.rows[i]["FLAG_CON"] = 1
          /\ input_df.rows[i]["FLAG_APP"] = 1
          /\ Stage(i) = "COMMIT"

\* C10. Priority score: the score of a record is len(funnel_priority) - i when
\* its stage is the label at 0-based position i of funnel_priority and 0 when
\* it has no stage or its stage is not listed (also when funnel_priority is
\* empty); so a stage listed earlier scores strictly more than one listed
\* later, and every listed stage scores at least 1.
PriorityScore ==
    ReturnedFromConfig =>
        /\ \A i \in DOMAIN input_df.rows :
              /\ \A p \in DOMAIN ConfigPriority :
                    ConfigPriority[p] = Stage(i)
                        => Score(i) = Len(ConfigPriority) - (p - 1)
              /\ Stage(i) \notin Range(ConfigPriority) => Score(i) = 0
        /\ \A p, q \in DOMAIN ConfigPriority :
              /\ ScoreOf(ConfigPriority[p], ConfigPriority) >= 1
              /\ p < q => ScoreOf(ConfigPriority[p], ConfigPriority)
                              > ScoreOf(ConfigPriority[q], ConfigPriority)

\* a record whose stage is the last of three listed stages scores 1
PriorityScoreWitness ==
    /\ ReturnedFromConfig
    /\ Len(ConfigPriority) = 3
    /\ \E i \in DOMAIN input_df.rows :
          /\ Stage(i) = ConfigPriority[3]
          /\ Score(i) = 1

====
